---- MODULE Spec2Model ----
(***************************************************************************)
(* StockGPT: the per-turn pipeline of app.py (symbol extraction, symbol    *)
(* resolution, the three market-data fetches, prompt composition, the two  *)
(* language-model calls and the session message log) and the helpers of    *)
(* utils.py, as a state machine.                                           *)
(*                                                                         *)
(* Text is a sequence of one-character strings.  Python's None and the     *)
(* empty string are both the empty sequence where a symbol is expected     *)
(* (both are falsy, which is all the code asks of them).                   *)
(***************************************************************************)
EXTENDS Integers, Sequences, FiniteSets, TLC

VARIABLES
  pc,               \* position of the script run of app.py
  turn_no,          \* number of user turns started so far
  messages,         \* st.session_state["messages"]
  log_before,       \* the log when the current turn started (history variable)
  user_input,       \* st.chat_input(...) of the current turn
  ticker,           \* extract_ticker_from_text(user_input)
  resolved_ticker,  \* app.py:55-62
  stock_data,       \* app.py:64, 72
  history_df,       \* app.py:65, 73
  news_md,          \* app.py:66, 74
  prompt,           \* app.py:82-91
  ai_response,      \* app.py:104, 106
  sentiment_prompt, \* app.py:183-188
  shown,            \* what the turn has rendered so far (st.* calls)
  calls,            \* the provider calls of the turn, in order (history variable)
  fn_pc,            \* position of a direct call of a helper of utils.py
  text,             \* argument of extract_ticker_from_text
  text_ret,         \* its return value
  news,             \* what the provider's Ticker.news holds
  count,            \* argument of get_latest_news
  news_raises,      \* whether the provider raises on the news lookup
  news_ret          \* return value of get_latest_news

vars == <<pc, turn_no, messages, log_before, user_input, ticker, resolved_ticker,
          stock_data, history_df, news_md, prompt, ai_response, sentiment_prompt,
          shown, calls, fn_pc, text, text_ret, news, count, news_raises, news_ret>>

turnVars == <<pc, turn_no, messages, log_before, user_input, ticker, resolved_ticker,
              stock_data, history_df, news_md, prompt, ai_response, sentiment_prompt,
              shown, calls>>

fnVars == <<fn_pc, text, text_ret, news, count, news_raises, news_ret>>

----------------------------------------------------------------------------
(* Bounds of the model *)

\* longest text handed to extract_ticker_from_text
MaxLen == 6
\* most items in a provider news list
MaxNews == 2
\* largest count handed to get_latest_news
MaxCount == 3
\* longest news title
MaxTitleLen == 302
\* most user turns in a session
MaxTurns == 2

----------------------------------------------------------------------------
(* Characters and Python's string helpers *)

None == <<>>

UpperLetters == {"A"}
LowerLetters == {"a"}
Chars == {"$", "(", ")", " "} \cup UpperLetters \cup LowerLetters

\* \w of Python's re, on the characters of the model
IsWordChar(c) == c \in UpperLetters \cup LowerLetters

\* str.upper(), one character
UpperChar(c) == IF c = "a" THEN "A" ELSE c

\* str.upper()
Upper(s) == [i \in 1..Len(s) |-> UpperChar(s[i])]

\* bool(x) of a str or None
Truthy(s) == s /= <<>>

\* whether position p of s holds a word character (positions outside s do not)
WordAt(s, p) == p >= 1 /\ p <= Len(s) /\ IsWordChar(s[p])

\* \b between positions p and p+1 of s
WordBoundary(s, p) == WordAt(s, p) /= WordAt(s, p + 1)

\* s[i+1 .. i+k] are all in [A-Z]
UpperRun(s, i, k) == i + k <= Len(s) /\ \A j \in 1..k : s[i + j] \in UpperLetters

Max(S) == CHOOSE x \in S : \A y \in S : y <= x
Min(S) == CHOOSE x \in S : \A y \in S : x <= y

TickerMin == 1
TickerMax == 5

----------------------------------------------------------------------------
(* utils.py: extract_ticker_from_text *)

\* lengths k with which \$([A-Z]{1,5})\b matches at position i (the "$")
DollarMatchLens(s, i) ==
  {k \in TickerMin..TickerMax :
     s[i] = "$" /\ UpperRun(s, i, k) /\ WordBoundary(s, i + k)}

\* lengths k with which \(([A-Z]{1,5})\) matches at position i (the "(")
ParenMatchLens(s, i) ==
  {k \in TickerMin..TickerMax :
     s[i] = "(" /\ UpperRun(s, i, k) /\ i + k + 1 <= Len(s) /\ s[i + k + 1] = ")"}

\* lengths k with which \b[A-Z]{1,5}\b matches starting at position i
TokenMatchLens(s, i) ==
  {k \in TickerMin..TickerMax :
     WordBoundary(s, i - 1) /\ UpperRun(s, i - 1, k) /\ WordBoundary(s, i - 1 + k)}

\* re.search(r"\$([A-Z]{1,5})\b", text): group 1 of the leftmost match, greedy
SearchDollar(s) ==
  LET starts == {i \in 1..Len(s) : DollarMatchLens(s, i) /= {}}
  IN  IF starts = {} THEN None
      ELSE LET i == Min(starts)
               k == Max(DollarMatchLens(s, i))
           IN  SubSeq(s, i + 1, i + k)

\* re.search(r"\(([A-Z]{1,5})\)", text): group 1 of the leftmost match
SearchParen(s) ==
  LET starts == {i \in 1..Len(s) : ParenMatchLens(s, i) /= {}}
  IN  IF starts = {} THEN None
      ELSE LET i == Min(starts)
               k == Max(ParenMatchLens(s, i))
           IN  SubSeq(s, i + 1, i + k)

\* re.findall(r"\b[A-Z]{1,5}\b", text) from position pos on: the
\* non-overlapping matches, left to right
RECURSIVE FindAllTokens(_, _)
FindAllTokens(s, pos) ==
  IF pos > Len(s) THEN <<>>
  ELSE IF TokenMatchLens(s, pos) /= {}
       THEN LET k == Max(TokenMatchLens(s, pos))
            IN  <<SubSeq(s, pos, pos + k - 1)>> \o FindAllTokens(s, pos + k)
       ELSE FindAllTokens(s, pos + 1)

\* [t for t in tokens if len(t) > 1]
LongTokens(tokens) == SelectSeq(tokens, LAMBDA t : Len(t) > 1)

\* rule 2 tried before rule 1
extract_ticker_parens_first(s) ==
  IF SearchParen(s) /= None THEN Upper(SearchParen(s))
  ELSE IF SearchDollar(s) /= None THEN Upper(SearchDollar(s))
  ELSE LET tokens == LongTokens(FindAllTokens(s, 1))
       IN  IF tokens /= <<>> THEN Upper(tokens[1]) ELSE None

extract_ticker_from_text(s) ==
  IF SearchDollar(s) /= None THEN Upper(SearchDollar(s))
  ELSE IF SearchParen(s) /= None THEN Upper(SearchParen(s))
  ELSE LET tokens == LongTokens(FindAllTokens(s, 1))
       IN  IF tokens /= <<>> THEN Upper(tokens[1]) ELSE None

----------------------------------------------------------------------------
(* The texts extract_ticker_from_text is called with *)

\* every text of at most n characters
RECURSIVE Texts(_)
Texts(n) ==
  IF n = 0 THEN {<<>>}
  ELSE LET shorter == Texts(n - 1)
       IN  shorter \cup {Append(t, c) : t \in {u \in shorter : Len(u) = n - 1}, c \in Chars}

----------------------------------------------------------------------------
(* utils.py: get_latest_news *)

TitleLimit == 300
TruncLen == 297
DefaultCount == 5

Ellipsis == <<".", ".", ".">>

\* dict.get(key, default)
Get(d, key, default) == IF key \in DOMAIN d THEN d[key] ELSE default

\* seq[:n] of Python, for any integer n
PyPrefix(seq, n) ==
  IF n >= 0 THEN SubSeq(seq, 1, IF n < Len(seq) THEN n ELSE Len(seq))
  ELSE SubSeq(seq, 1, IF Len(seq) + n > 0 THEN Len(seq) + n ELSE 0)

\* the title cut at the limit itself, three characters too late
TruncateTitleLate(title) ==
  IF Len(title) > TitleLimit THEN PyPrefix(title, TitleLimit) \o Ellipsis ELSE title

\* utils.py:106-107
TruncateTitle(title) ==
  IF Len(title) > TitleLimit THEN PyPrefix(title, TruncLen) \o Ellipsis ELSE title

\* the string "No recent news found."
NoNewsText == [kind |-> "literal", text |-> "No recent news found.", items |-> <<>>]

\* the string f"Error fetching news: {e}"
ErrorNewsText == [kind |-> "error", text |-> "Error fetching news: ", items |-> <<>>]

\* one entry of `formatted`: f"{i}. **{title}**  \nSource: {publisher}  \n{link}"
FormatItem(i, n) ==
  [num |-> i,
   title |-> TruncateTitle(Get(n, "title", <<"No title">>)),
   publisher |-> Get(n, "publisher", <<"Unknown">>),
   link |-> Get(n, "link", <<>>)]

\* "\n\n".join(formatted)
JoinedNews(formatted) == [kind |-> "list", text |-> "", items |-> formatted]

\* provider_news: stock.news (None and [] are both <<>>); raises: the provider
\* call raises
get_latest_news(provider_news, cnt, raises) ==
  IF raises THEN ErrorNewsText
  ELSE IF provider_news = <<>> THEN NoNewsText
  ELSE LET shownNews == PyPrefix(provider_news, cnt)
       IN  JoinedNews([i \in 1..Len(shownNews) |-> FormatItem(i, shownNews[i])])

----------------------------------------------------------------------------
(* The market-data provider and the language model, as seen by the code *)

\* symbols the provider's search can rank first
SearchSymbols == {<<"A", "A">>, <<"A", "A", "A">>}

\* yf.search(query): raises, or returns the ranked candidates' symbols
SearchOutcomes ==
  {[raises |-> TRUE, quotes |-> <<>>]} \cup
  {[raises |-> FALSE, quotes |-> q] : q \in {<<>>} \cup {<<sy>> : sy \in SearchSymbols}}

\* yf.Ticker(symbol).info: raises, lacks 'shortName', or is a full record
InfoOutcomes == {"raise", "noName", "ok"}

\* what the provider does during one get_stock_info: the first info lookup,
\* the search and the second info lookup (only the lookups made matter)
ProfileOutcomes ==
  {[info1 |-> i, search |-> [raises |-> TRUE, quotes |-> <<>>], info2 |-> "raise"] :
     i \in {"raise", "ok"}} \cup
  {[info1 |-> "noName", search |-> so, info2 |-> "raise"] :
     so \in {x \in SearchOutcomes : x.quotes = <<>>}} \cup
  {[info1 |-> "noName", search |-> so, info2 |-> i] :
     so \in {x \in SearchOutcomes : x.quotes /= <<>>}, i \in InfoOutcomes}

\* stock.history(...): raises, returns no rows, or returns rows
HistoryOutcomes == {"raise", "empty", "rows"}

\* stock.news: raises, or holds a list of items
TurnNewsOutcomes ==
  {[raises |-> TRUE, news |-> <<>>]} \cup
  {[raises |-> FALSE, news |-> n] : n \in {<<>>, <<[title |-> <<"t">>]>>}}

\* one provider call of the turn (op "enter": a fetch helper is entered); ret
\* is what the provider did, for a search the symbol ranked first
Call(op, by, arg, ret) == [op |-> op, by |-> by, arg |-> arg, ret |-> ret]

----------------------------------------------------------------------------
(* utils.py: get_stock_info, get_stock_history; get_latest_news as app.py calls it *)

NoData == [kind |-> "none", symbol |-> <<>>, named |-> FALSE]

\* the summary text "**{name} ({symbol})** ..." of utils.py:68-77; named: the
\* record had a longName or shortName (otherwise {name} is the query)
Summary(symbol, named) == [kind |-> "summary", symbol |-> symbol, named |-> named]

\* f"Couldn't fetch info for '{query}'. Error: {e}"
InfoError(query) == [kind |-> "error", symbol |-> query, named |-> FALSE]

\* the result of a helper: whether it raised, its value, the provider calls made
Result(raised, value, made) == [raised |-> raised, value |-> value, calls |-> made]

get_stock_info(query, o) ==
  LET enter == Call("enter", "get_stock_info", query, None)
      first == Call("info", "get_stock_info", Upper(query), <<o.info1>>)
      best == IF o.search.quotes /= <<>> THEN o.search.quotes[1] ELSE None
      search == Call("search", "get_stock_info", query, best)
      second == Call("info", "get_stock_info", best, <<o.info2>>)
  IN  CASE o.info1 = "raise" ->
             Result(FALSE, InfoError(query), <<enter, first>>)
        [] o.info1 = "ok" ->
             Result(FALSE, Summary(Upper(query), TRUE), <<enter, first>>)
        [] o.info1 = "noName" /\ o.search.raises ->
             Result(FALSE, InfoError(query), <<enter, first, search>>)
        [] o.info1 = "noName" /\ ~o.search.raises /\ o.search.quotes = <<>> ->
             Result(FALSE, Summary(Upper(query), FALSE), <<enter, first, search>>)
        [] o.info1 = "noName" /\ ~o.search.raises /\ o.search.quotes /= <<>>
             /\ o.info2 = "raise" ->
             Result(FALSE, InfoError(query), <<enter, first, search, second>>)
        [] OTHER ->
             Result(FALSE, Summary(best, o.info2 = "ok"), <<enter, first, search, second>>)

NoFrame == [kind |-> "none", symbol |-> <<>>]

\* df.reset_index(): the rows with the dates as a column
Frame(symbol) == [kind |-> "rows", symbol |-> symbol]

\* the provider's exception leaves the function
get_stock_history_raising(tk, o) ==
  LET made == <<Call("enter", "get_stock_history", tk, None),
                Call("history", "get_stock_history", tk, <<o>>)>>
  IN  IF o = "raise" THEN Result(TRUE, NoFrame, made)
      ELSE Result(FALSE, IF o = "rows" THEN Frame(tk) ELSE NoFrame, made)

get_stock_history(tk, o) ==
  LET made == <<Call("enter", "get_stock_history", tk, None),
                Call("history", "get_stock_history", tk, <<o>>)>>
  IN  Result(FALSE, IF o = "rows" THEN Frame(tk) ELSE NoFrame, made)

\* news_md = None
NoNewsMd == [kind |-> "none", text |-> "", items |-> <<>>]

\* get_latest_news(resolved_ticker, count=5)
FetchNews(tk, o) ==
  Result(FALSE, get_latest_news(o.news, DefaultCount, o.raises),
         <<Call("enter", "get_latest_news", tk, None),
           Call("news", "get_latest_news", tk,
                IF o.raises THEN <<"raise">> ELSE <<"ok">>)>>)

\* bool(news_md)
NewsTruthy(md) == md.kind /= "none" /\ (md.kind = "list" => md.items /= <<>>)

\* news_md.lower().startswith("error")
StartsWithError(md) == md.kind = "error"

\* news_md.lower().startswith("no recent news")
StartsWithNoRecentNews(md) == md.kind = "literal"

\* bool(stock_data)
DataTruthy(d) == d.kind /= "none"

----------------------------------------------------------------------------
(* app.py: one script run per user turn *)

\* the inputs a user types: a $-prefixed symbol, a parenthesised symbol, a
\* company name with no symbol in it
Inputs == {<<"$", "A", "A">>, <<"(", "A", ")">>, <<"a", "a">>}

Message(role, content) == [role |-> role, content |-> content]

Greeting == Message("assistant", <<"Hi! I'm StockGPT. ...">>)

\* response.choices[0].message.content
Reply == <<"reply">>

\* f"Error generating response from OpenAI: {e}..."
ErrorReply == <<"Error generating response from OpenAI: ">>

NoReply == <<>>

\* one optional section of the primary prompt
Section(present, for, body) == [present |-> present, for |-> for, body |-> body]

\* the primary prompt: the preamble and the question, then the two sections
Prompt(question, summary, newsSection) ==
  [built |-> TRUE, preamble |-> TRUE, question |-> question,
   summary |-> summary, news |-> newsSection]

NoPrompt ==
  [built |-> FALSE, preamble |-> FALSE, question |-> <<>>,
   summary |-> Section(FALSE, None, NoData), news |-> Section(FALSE, None, NoNewsMd)]

NoSentimentPrompt == [built |-> FALSE, for |-> None, news |-> NoNewsMd]

FnInit ==
  /\ fn_pc = "unused"
  /\ text = <<>>
  /\ text_ret = None
  /\ news = <<>>
  /\ count = DefaultCount
  /\ news_raises = FALSE
  /\ news_ret = NoNewsMd

\* app.py:29-35 and the script's locals before any input
TurnInit ==
  /\ pc = "idle"
  /\ turn_no = 0
  /\ messages = <<Greeting>>
  /\ log_before = <<Greeting>>
  /\ user_input = <<>>
  /\ ticker = None
  /\ resolved_ticker = None
  /\ stock_data = NoData
  /\ history_df = NoFrame
  /\ news_md = NoNewsMd
  /\ prompt = NoPrompt
  /\ ai_response = NoReply
  /\ sentiment_prompt = NoSentimentPrompt
  /\ shown = {}
  /\ calls = <<>>

Init == TurnInit /\ FnInit

\* the log is created anew on every script run
UserInputResetting ==
  /\ pc = "idle"
  /\ turn_no < MaxTurns
  /\ \E t \in Inputs :
       /\ user_input' = t
       /\ messages' = <<Greeting, Message("user", t)>>
  /\ log_before' = messages
  /\ turn_no' = turn_no + 1
  /\ pc' = "extract"
  /\ ticker' = None
  /\ resolved_ticker' = None
  /\ stock_data' = NoData
  /\ history_df' = NoFrame
  /\ news_md' = NoNewsMd
  /\ prompt' = NoPrompt
  /\ ai_response' = NoReply
  /\ sentiment_prompt' = NoSentimentPrompt
  /\ shown' = {"user_message"}
  /\ calls' = <<>>
  /\ UNCHANGED fnVars

\* app.py:43-49: a non-empty input starts a turn; the script's locals are fresh
UserInput ==
  /\ pc = "idle"
  /\ turn_no < MaxTurns
  /\ \E t \in Inputs :
       /\ user_input' = t
       /\ messages' = Append(messages, Message("user", t))
  /\ log_before' = messages
  /\ turn_no' = turn_no + 1
  /\ pc' = "extract"
  /\ ticker' = None
  /\ resolved_ticker' = None
  /\ stock_data' = NoData
  /\ history_df' = NoFrame
  /\ news_md' = NoNewsMd
  /\ prompt' = NoPrompt
  /\ ai_response' = NoReply
  /\ sentiment_prompt' = NoSentimentPrompt
  /\ shown' = {"user_message"}
  /\ calls' = <<>>
  /\ UNCHANGED fnVars

\* app.py:52-55
Extract ==
  /\ pc = "extract"
  /\ ticker' = extract_ticker_from_text(user_input)
  /\ resolved_ticker' = ticker'
  /\ pc' = IF Truthy(ticker') THEN "fetch" ELSE "search"
  /\ UNCHANGED <<turn_no, messages, log_before, user_input, stock_data, history_df,
                 news_md, prompt, ai_response, sentiment_prompt, shown, calls>>
  /\ UNCHANGED fnVars

\* with no candidate, the input itself is taken for a symbol
ResolvedFromInput(o) ==
  IF ~o.raises /\ o.quotes /= <<>> THEN o.quotes[1] ELSE Upper(user_input)

\* the symbol the resolver takes from a search: app.py:59-62
ResolvedFrom(o) ==
  IF o.raises THEN None
  ELSE IF o.quotes /= <<>> THEN o.quotes[1] ELSE resolved_ticker

\* app.py:56-62
Search ==
  /\ pc = "search"
  /\ \E o \in SearchOutcomes :
       /\ resolved_ticker' = ResolvedFrom(o)
       /\ calls' = Append(calls, Call("search", "resolver", user_input,
                                      IF o.quotes /= <<>> THEN o.quotes[1] ELSE None))
  /\ pc' = "fetch"
  /\ UNCHANGED <<turn_no, messages, log_before, user_input, ticker, stock_data,
                 history_df, news_md, prompt, ai_response, sentiment_prompt, shown>>
  /\ UNCHANGED fnVars

\* app.py:69-76: the three fetches in one try block; an exception leaving one
\* of them skips the rest and shows "Couldn't fetch full data"
FetchData ==
  /\ pc = "fetch"
  /\ Truthy(resolved_ticker)
  /\ \E po \in ProfileOutcomes, ho \in HistoryOutcomes, no \in TurnNewsOutcomes :
       LET r1 == get_stock_info(resolved_ticker, po)
           r2 == get_stock_history(resolved_ticker, ho)
           r3 == FetchNews(resolved_ticker, no)
       IN  /\ stock_data' = IF r1.raised THEN NoData ELSE r1.value
           /\ history_df' = IF r1.raised \/ r2.raised THEN NoFrame ELSE r2.value
           /\ news_md' = IF r1.raised \/ r2.raised \/ r3.raised THEN NoNewsMd ELSE r3.value
           /\ calls' = calls \o r1.calls
                         \o (IF r1.raised THEN <<>> ELSE r2.calls)
                         \o (IF r1.raised \/ r2.raised THEN <<>> ELSE r3.calls)
           /\ shown' = IF r1.raised \/ r2.raised \/ r3.raised
                       THEN shown \cup {"fetch_warning"} ELSE shown
  /\ pc' = "prompt"
  /\ UNCHANGED <<turn_no, messages, log_before, user_input, ticker, resolved_ticker,
                 prompt, ai_response, sentiment_prompt>>
  /\ UNCHANGED fnVars

\* app.py:78-79
ResolutionWarning ==
  /\ pc = "fetch"
  /\ ~Truthy(resolved_ticker)
  /\ shown' = shown \cup {"resolve_warning"}
  /\ pc' = "prompt"
  /\ UNCHANGED <<turn_no, messages, log_before, user_input, ticker, resolved_ticker,
                 stock_data, history_df, news_md, prompt, ai_response,
                 sentiment_prompt, calls>>
  /\ UNCHANGED fnVars

\* app.py:88-89
SummarySection ==
  IF Truthy(resolved_ticker) /\ DataTruthy(stock_data)
  THEN Section(TRUE, resolved_ticker, stock_data)
  ELSE Section(FALSE, None, NoData)

\* app.py:90-91
NewsSection ==
  IF Truthy(resolved_ticker) /\ NewsTruthy(news_md)
  THEN Section(TRUE, resolved_ticker, news_md)
  ELSE Section(FALSE, None, NoNewsMd)

\* app.py:82-91
BuildPrompt ==
  /\ pc = "prompt"
  /\ prompt' = Prompt(user_input, SummarySection, NewsSection)
  /\ pc' = "primary"
  /\ UNCHANGED <<turn_no, messages, log_before, user_input, ticker, resolved_ticker,
                 stock_data, history_df, news_md, ai_response, sentiment_prompt,
                 shown, calls>>
  /\ UNCHANGED fnVars

\* the model's exception ends the script run: nothing is appended
CallPrimaryAborting ==
  /\ pc = "primary"
  /\ \E ok \in BOOLEAN :
       /\ ai_response' = IF ok THEN Reply ELSE ErrorReply
       /\ messages' = IF ok THEN Append(messages, Message("assistant", Reply)) ELSE messages
       /\ pc' = IF ok THEN "display" ELSE "idle"
  /\ calls' = Append(calls, Call("chat", "primary", None, None))
  /\ shown' = shown
  /\ UNCHANGED <<turn_no, log_before, user_input, ticker, resolved_ticker, stock_data,
                 history_df, news_md, prompt, sentiment_prompt>>
  /\ UNCHANGED fnVars

\* app.py:94-111
CallPrimary ==
  /\ pc = "primary"
  /\ \E ok \in BOOLEAN :
       /\ ai_response' = IF ok THEN Reply ELSE ErrorReply
       /\ messages' = Append(messages, Message("assistant", ai_response'))
  /\ calls' = Append(calls, Call("chat", "primary", None, None))
  /\ shown' = shown \cup {"assistant_message"}
  /\ pc' = "display"
  /\ UNCHANGED <<turn_no, log_before, user_input, ticker, resolved_ticker, stock_data,
                 history_df, news_md, prompt, sentiment_prompt>>
  /\ UNCHANGED fnVars

\* what app.py:115-178 renders
DataShown ==
  {"data_heading", "metrics"}
    \cup (IF DataTruthy(stock_data) THEN {"summary"} ELSE {"no_summary"})
    \cup (IF history_df.kind = "rows" THEN {"chart"} ELSE {"no_chart"})
    \cup (IF NewsTruthy(news_md) /\ ~StartsWithError(news_md) THEN {"news"} ELSE {"no_news"})

\* the metrics lookup made for the extracted ticker
DisplayDataForTicker ==
  /\ pc = "display"
  /\ Truthy(resolved_ticker)
  /\ \E o \in {"raise", "ok"} :
       calls' = Append(calls, Call("info", "metrics", ticker, <<o>>))
  /\ shown' = shown \cup DataShown
  /\ pc' = "sentiment"
  /\ UNCHANGED <<turn_no, messages, log_before, user_input, ticker, resolved_ticker,
                 stock_data, history_df, news_md, prompt, ai_response, sentiment_prompt>>
  /\ UNCHANGED fnVars

\* app.py:114-178; the metrics lookup yf.Ticker(resolved_ticker).info may raise
DisplayData ==
  /\ pc = "display"
  /\ Truthy(resolved_ticker)
  /\ \E o \in {"raise", "ok"} :
       calls' = Append(calls, Call("info", "metrics", resolved_ticker,
                                   <<o>>))
  /\ shown' = shown \cup DataShown
  /\ pc' = "sentiment"
  /\ UNCHANGED <<turn_no, messages, log_before, user_input, ticker, resolved_ticker,
                 stock_data, history_df, news_md, prompt, ai_response, sentiment_prompt>>
  /\ UNCHANGED fnVars

\* the metrics lookup made although no symbol was resolved
SkipDisplayLookingUp ==
  /\ pc = "display"
  /\ ~Truthy(resolved_ticker)
  /\ calls' = Append(calls, Call("info", "metrics", resolved_ticker, <<"raise">>))
  /\ pc' = "idle"
  /\ UNCHANGED <<turn_no, messages, log_before, user_input, ticker, resolved_ticker,
                 stock_data, history_df, news_md, prompt, ai_response, sentiment_prompt,
                 shown>>
  /\ UNCHANGED fnVars

\* app.py:114 with no symbol: the script run ends
SkipDisplay ==
  /\ pc = "display"
  /\ ~Truthy(resolved_ticker)
  /\ pc' = "idle"
  /\ UNCHANGED <<turn_no, messages, log_before, user_input, ticker, resolved_ticker,
                 stock_data, history_df, news_md, prompt, ai_response, sentiment_prompt,
                 shown, calls>>
  /\ UNCHANGED fnVars

\* the guard without its error test
WantsSentimentOnErrors ==
  NewsTruthy(news_md) /\ ~StartsWithNoRecentNews(news_md)

\* app.py:181
WantsSentiment ==
  NewsTruthy(news_md) /\ ~StartsWithNoRecentNews(news_md) /\ ~StartsWithError(news_md)

\* app.py:182-203
SentimentCall ==
  /\ pc = "sentiment"
  /\ WantsSentiment
  /\ sentiment_prompt' = [built |-> TRUE, for |-> resolved_ticker, news |-> news_md]
  /\ calls' = Append(calls, Call("chat", "sentiment", None, None))
  /\ \E ok \in BOOLEAN :
       shown' = shown \cup (IF ok THEN {"sentiment"} ELSE {"sentiment_warning"})
  /\ pc' = "idle"
  /\ UNCHANGED <<turn_no, messages, log_before, user_input, ticker, resolved_ticker,
                 stock_data, history_df, news_md, prompt, ai_response>>
  /\ UNCHANGED fnVars

\* app.py:181 false: the script run ends
SkipSentiment ==
  /\ pc = "sentiment"
  /\ ~WantsSentiment
  /\ pc' = "idle"
  /\ UNCHANGED <<turn_no, messages, log_before, user_input, ticker, resolved_ticker,
                 stock_data, history_df, news_md, prompt, ai_response, sentiment_prompt,
                 shown, calls>>
  /\ UNCHANGED fnVars

Next ==
  \/ UserInput
  \/ Extract
  \/ Search
  \/ FetchData
  \/ ResolutionWarning
  \/ BuildPrompt
  \/ CallPrimary
  \/ DisplayData
  \/ SkipDisplay
  \/ SentimentCall
  \/ SkipSentiment

Spec == Init /\ [][Next]_vars

----------------------------------------------------------------------------
(* extract_ticker_from_text called on any text *)

InitExtract ==
  /\ TurnInit
  /\ fn_pc = "call"
  /\ text \in Texts(MaxLen)
  /\ text_ret = None
  /\ news = <<>>
  /\ count = DefaultCount
  /\ news_raises = FALSE
  /\ news_ret = NoNewsMd

ExtractCall ==
  /\ fn_pc = "call"
  /\ text_ret' = extract_ticker_from_text(text)
  /\ fn_pc' = "returned"
  /\ UNCHANGED <<text, news, count, news_raises, news_ret>>
  /\ UNCHANGED turnVars

SpecExtract == InitExtract /\ [][ExtractCall]_vars

----------------------------------------------------------------------------
(* get_latest_news called on any provider news list and count *)

\* a title of n characters
TitleOfLen(n) == [i \in 1..n |-> IF i % 3 = 0 THEN "x" ELSE IF i % 3 = 1 THEN "y" ELSE "z"]

\* title lengths around the limit
TitleLens ==
  {0, 1, TruncLen, TitleLimit - 1, TitleLimit, TitleLimit + 1} \cup {MaxTitleLen}

\* provider news items: with a title, or without one
NewsItems ==
  {[title |-> TitleOfLen(n)] : n \in TitleLens} \cup {[publisher |-> <<"p">>]}

RECURSIVE NewsLists(_)
NewsLists(n) ==
  IF n = 0 THEN {<<>>}
  ELSE LET shorter == NewsLists(n - 1)
       IN  shorter \cup {Append(l, it) : l \in {u \in shorter : Len(u) = n - 1}, it \in NewsItems}

InitNews ==
  /\ TurnInit
  /\ fn_pc = "call"
  /\ text = <<>>
  /\ text_ret = None
  /\ news \in NewsLists(MaxNews)
  /\ count \in 0..MaxCount
  /\ news_raises \in BOOLEAN
  /\ news_ret = NoNewsMd

NewsCall ==
  /\ fn_pc = "call"
  /\ news_ret' = get_latest_news(news, count, news_raises)
  /\ fn_pc' = "returned"
  /\ UNCHANGED <<text, text_ret, news, count, news_raises>>
  /\ UNCHANGED turnVars

SpecNews == InitNews /\ [][NewsCall]_vars

----------------------------------------------------------------------------
(* Claims about extract_ticker_from_text (under SpecExtract) *)

\* characters i+1 .. i+k of the text
Piece(i, k) == SubSeq(text, i + 1, i + k)

\* the k characters after position i are uppercase letters
LettersAfter(i, k) ==
  /\ k \in TickerMin..TickerMax
  /\ i + k <= Len(text)
  /\ \A j \in 1..k : text[i + j] \in UpperLetters

\* position i holds "$" and exactly k uppercase letters follow it
DollarRunAt(i, k) ==
  /\ text[i] = "$"
  /\ LettersAfter(i, k)
  /\ (i + k = Len(text) \/ text[i + k + 1] \notin UpperLetters)

\* ... and the letters end the word (end of text, or no letter follows)
DollarWordAt(i, k) ==
  /\ text[i] = "$"
  /\ LettersAfter(i, k)
  /\ (i + k = Len(text) \/ ~IsWordChar(text[i + k + 1]))

\* position i holds "(", k uppercase letters follow, then ")"
ParenAt(i, k) ==
  /\ text[i] = "("
  /\ LettersAfter(i, k)
  /\ i + k + 1 <= Len(text)
  /\ text[i + k + 1] = ")"

\* a word of k >= 2 uppercase letters starts right after position i
StandaloneAt(i, k) ==
  /\ k >= 2
  /\ LettersAfter(i, k)
  /\ (i = 0 \/ ~IsWordChar(text[i]))
  /\ (i + k = Len(text) \/ ~IsWordChar(text[i + k + 1]))

Positions == 0..Len(text)
Lengths == TickerMin..TickerMax

HasDollarWord == \E i \in 1..Len(text), k \in Lengths : DollarWordAt(i, k)
HasParen == \E i \in 1..Len(text), k \in Lengths : ParenAt(i, k)
HasStandalone == \E i \in Positions, k \in Lengths : StandaloneAt(i, k)

\* C8 as stated: whenever the text contains "$" followed by 1-5 uppercase
\* letters XYZ, extract_ticker_from_text returns such an XYZ (and rule 2 goes
\* before rule 3, and text matching no rule gives none).
C8_AsStated ==
  fn_pc = "returned" =>
    ((\E i \in 1..Len(text), k \in Lengths : DollarRunAt(i, k)) =>
       \E i \in 1..Len(text), k \in Lengths : DollarRunAt(i, k) /\ text_ret = Piece(i, k))

\* C8, amended: when the text contains "$" followed by 1-5 uppercase letters
\* that end at a word boundary, the result is the letters of the leftmost such
\* occurrence, whatever parenthesised symbol or uppercase token the text also
\* holds; otherwise, the letters of the leftmost "(XYZ)"; otherwise, the first
\* standalone word of 2-5 uppercase letters; otherwise none.
C8_ExtractPrecedence ==
  fn_pc = "returned" =>
    /\ HasDollarWord =>
         \E i \in 1..Len(text), k \in Lengths :
           /\ DollarWordAt(i, k)
           /\ text_ret = Piece(i, k)
           /\ \A i2 \in 1..(i - 1), k2 \in Lengths : ~DollarWordAt(i2, k2)
    /\ (~HasDollarWord /\ HasParen) =>
         \E i \in 1..Len(text), k \in Lengths :
           /\ ParenAt(i, k)
           /\ text_ret = Piece(i, k)
           /\ \A i2 \in 1..(i - 1), k2 \in Lengths : ~ParenAt(i2, k2)
    /\ (~HasDollarWord /\ ~HasParen /\ HasStandalone) =>
         \E i \in Positions, k \in Lengths :
           /\ StandaloneAt(i, k)
           /\ text_ret = Piece(i, k)
           /\ \A i2 \in 0..(i - 1), k2 \in Lengths : ~StandaloneAt(i2, k2)
    /\ (~HasDollarWord /\ ~HasParen /\ ~HasStandalone) => text_ret = None

\* "$A" wins over a parenthesised symbol standing before it
C8_Witness ==
  /\ fn_pc = "returned"
  /\ text = <<"(", "A", "A", ")", "$", "A">>
  /\ text_ret = <<"A">>

----------------------------------------------------------------------------
(* Claims about get_latest_news (under SpecNews) *)

Smaller(a, b) == IF a < b THEN a ELSE b

\* rendered item i carries number i and the provider's i-th title, cut to
\* 297 characters and "..." when it is longer than 300
RenderedAsClaimed(i) ==
  LET item == news_ret.items[i]
  IN  /\ item.num = i
      /\ Len(item.title) <= TitleLimit
      /\ "title" \in DOMAIN news[i] =>
           LET t == news[i].title
           IN  /\ Len(t) <= TitleLimit => item.title = t
               /\ Len(t) > TitleLimit =>
                    /\ Len(item.title) = TruncLen + 3
                    /\ \A j \in 1..TruncLen : item.title[j] = t[j]
                    /\ \A j \in (TruncLen + 1)..(TruncLen + 3) : item.title[j] = "."

\* C9: get_latest_news returns the literal "No recent news found." for an
\* empty or absent list; otherwise min(len(news), count) items numbered from 1
\* in provider order, titles of at most 300 characters unchanged and longer
\* ones cut to 297 characters plus "..."; and an "Error fetching news: ..."
\* string when the provider raises.
C9_NewsFormat ==
  fn_pc = "returned" =>
    /\ news_raises =>
         news_ret.kind = "error" /\ news_ret.text = "Error fetching news: "
    /\ (~news_raises /\ news = <<>>) =>
         news_ret.kind = "literal" /\ news_ret.text = "No recent news found."
    /\ (~news_raises /\ news /= <<>>) =>
         /\ news_ret.kind = "list"
         /\ Len(news_ret.items) = Smaller(Len(news), count)
         /\ \A i \in 1..Len(news_ret.items) : RenderedAsClaimed(i)

\* a list whose second title is one character over the limit, both rendered
C9_Witness ==
  /\ fn_pc = "returned"
  /\ ~news_raises
  /\ Len(news) = 2
  /\ count = 2
  /\ "title" \in DOMAIN news[2]
  /\ Len(news[2].title) = TitleLimit + 1
  /\ Len(news_ret.items) = 2
  /\ Len(news_ret.items[2].title) = TitleLimit

----------------------------------------------------------------------------
(* Claims about a user turn (under Spec) *)

TurnDone == pc = "idle" /\ turn_no > 0

\* the turn is past symbol resolution and the fetch step
PastFetch == pc \in {"prompt", "primary", "display", "sentiment"} \/ TurnDone

\* the primary reply has been appended
PastPrimary == pc \in {"display", "sentiment"} \/ TurnDone

CallIndices == 1..Len(calls)

MarketDataCallers == {"get_stock_info", "get_stock_history", "get_latest_news", "metrics"}

FetchHelpers == {"get_stock_info", "get_stock_history", "get_latest_news"}

UserEntry == Message("user", user_input)

\* C1: the log after a turn is the log before it with exactly a user entry and
\* an assistant entry appended, in this order, whatever resolution, the
\* fetches and the model call did; no earlier entry is touched.
C1_LogAppendsTwo ==
  /\ pc \in {"extract", "search", "fetch", "prompt", "primary"} =>
       messages = log_before \o <<UserEntry>>
  /\ PastPrimary =>
       /\ messages = log_before \o <<UserEntry, Message("assistant", ai_response)>>
       /\ ai_response \in {Reply, ErrorReply}
  /\ Len(log_before) = 1 + 2 * (IF turn_no = 0 THEN 0 ELSE turn_no - 1)

\* a second turn ends, unresolved and with a failed model call, on a log of 5
C1_Witness ==
  /\ TurnDone
  /\ turn_no = 2
  /\ ~Truthy(resolved_ticker)
  /\ ai_response = ErrorReply
  /\ Len(messages) = 5

\* the extractor found nothing and the resolver's search raised or ranked nothing
SearchFoundNothing ==
  /\ ticker = None
  /\ \E i \in CallIndices : calls[i].by = "resolver" /\ calls[i].ret = None

\* C2: when the extractor returns none and the search yields no candidate or
\* raises, the resolved symbol is none, the "could not resolve" warning is
\* shown, and no profile, history, news or metrics lookup is made in the turn.
C2_NoMarketDataWhenUnresolved ==
  SearchFoundNothing =>
    /\ resolved_ticker = None
    /\ PastFetch => "resolve_warning" \in shown
    /\ \A i \in CallIndices : calls[i].by \notin MarketDataCallers

C2_Witness ==
  /\ TurnDone
  /\ SearchFoundNothing
  /\ "resolve_warning" \in shown
  /\ Len(calls) = 2

\* resolution failed: the turn is past resolution with no symbol
ResolutionFailed == PastFetch /\ ~Truthy(resolved_ticker)

\* C3 as stated: after a resolution failure the warning is shown and neither a
\* market-data call nor a language-model call is made in the turn.
C3_AsStated ==
  ResolutionFailed =>
    /\ "resolve_warning" \in shown
    /\ \A i \in CallIndices :
         calls[i].by \notin MarketDataCallers /\ calls[i].op /= "chat"

\* C3, amended: after a resolution failure the warning is shown and neither a
\* market-data call nor the sentiment call is made in the turn; the primary
\* call is still made, once, with a prompt of the preamble and the question
\* alone, and its reply or error string is appended to the log.
C3_UnresolvedTurn ==
  ResolutionFailed =>
    /\ "resolve_warning" \in shown
    /\ \A i \in CallIndices :
         calls[i].by \notin MarketDataCallers /\ calls[i].by /= "sentiment"
    /\ ~sentiment_prompt.built
    /\ PastPrimary =>
         /\ Cardinality({i \in CallIndices : calls[i].by = "primary"}) = 1
         /\ prompt.built /\ ~prompt.summary.present /\ ~prompt.news.present
         /\ messages = log_before \o <<UserEntry, Message("assistant", ai_response)>>

C3_Witness ==
  /\ TurnDone
  /\ ~Truthy(resolved_ticker)
  /\ ticker = None
  /\ ai_response = Reply
  /\ \E i \in CallIndices : calls[i].by = "primary"

\* the primary call comes before call i
PrimaryBefore(i) == \E j \in 1..(i - 1) : calls[j].by = "primary"

\* C4: a raising primary call gives an error string that is appended as the
\* turn's assistant entry; the turn goes on: for a resolved symbol the data
\* display and the sentiment step run afterwards, and a failing sentiment call
\* is caught and leaves the log as it was.
C4_PrimaryFailureContained ==
  ai_response = ErrorReply =>
    /\ PastPrimary
    /\ messages = log_before \o <<UserEntry, Message("assistant", ErrorReply)>>
    /\ (TurnDone /\ Truthy(resolved_ticker)) =>
         /\ {"data_heading", "metrics"} \subseteq shown
         /\ \E i \in CallIndices : calls[i].by = "metrics" /\ PrimaryBefore(i)
         /\ WantsSentiment <=>
              \E i \in CallIndices : calls[i].by = "sentiment" /\ PrimaryBefore(i)
         /\ WantsSentiment <=> (shown \cap {"sentiment", "sentiment_warning"} /= {})

C4_Witness ==
  /\ TurnDone
  /\ ai_response = ErrorReply
  /\ Truthy(resolved_ticker)
  /\ "chart" \in shown
  /\ "sentiment_warning" \in shown
  /\ Len(messages) = Len(log_before) + 2

\* how often the turn entered fetch helper f
Entered(f) == {i \in CallIndices : calls[i].op = "enter" /\ calls[i].by = f}

\* C5: for a resolved symbol each of the three fetches is attempted exactly
\* once whichever of the others fail; no failure reaches the script (no
\* "couldn't fetch full data"), the turn still gets its assistant entry, the
\* sections whose fetch succeeded are displayed, and a failed or empty history
\* gives the "no historical price data" note.
C5_FetchesIndependent ==
  (PastFetch /\ Truthy(resolved_ticker)) =>
    /\ \A f \in FetchHelpers :
         /\ Cardinality(Entered(f)) = 1
         /\ \A i \in Entered(f) : calls[i].arg = resolved_ticker
    /\ "fetch_warning" \notin shown
    /\ TurnDone =>
         /\ Len(messages) = Len(log_before) + 2
         /\ messages[Len(messages)].role = "assistant"
         /\ stock_data.kind = "summary" => "summary" \in shown
         /\ history_df.kind = "rows" => "chart" \in shown
         /\ history_df.kind = "none" => ("no_chart" \in shown /\ "chart" \notin shown)
         /\ news_md.kind \in {"list", "literal"} => "news" \in shown

\* the history lookup raised, profile and news came through and are displayed
C5_Witness ==
  /\ TurnDone
  /\ \E i \in CallIndices : calls[i].op = "history" /\ calls[i].ret = <<"raise">>
  /\ stock_data.kind = "summary"
  /\ news_md.kind = "list"
  /\ {"summary", "news", "no_chart"} \subseteq shown

SentimentCalls == {i \in CallIndices : calls[i].by = "sentiment"}

\* C6: the sentiment prompt is built and the sentiment call made only for a
\* resolved symbol whose news text is a non-empty headline list (not the
\* no-news literal, not an error string); the call comes after the primary
\* reply was appended, uses the news text offered to the primary prompt, and
\* its result never enters the log.
C6_SentimentOnlyOnHeadlines ==
  /\ sentiment_prompt.built <=> SentimentCalls /= {}
  /\ Cardinality(SentimentCalls) <= 1
  /\ \A i \in SentimentCalls :
       /\ Truthy(resolved_ticker)
       /\ news_md.kind = "list" /\ news_md.items /= <<>>
       /\ PrimaryBefore(i)
       /\ sentiment_prompt.for = resolved_ticker
       /\ sentiment_prompt.news = news_md
       /\ prompt.news.present /\ prompt.news.body = sentiment_prompt.news
       /\ messages = log_before \o <<UserEntry, Message("assistant", ai_response)>>
       /\ ai_response \in {Reply, ErrorReply}

C6_Witness ==
  /\ TurnDone
  /\ SentimentCalls /= {}
  /\ "sentiment" \in shown
  /\ news_md.kind = "list"
  /\ Len(messages) = Len(log_before) + 2

\* C7: the primary prompt holds the preamble and the question; the summary
\* section only when a profile summary is available and the news section only
\* when a news list is; after a failed profile fetch, a failed or empty news
\* fetch, or no symbol, the section is left out and no error or no-news text
\* stands in its place.
C7_PromptOmitsAbsentSections ==
  prompt.built =>
    /\ prompt.preamble
    /\ prompt.question = user_input
    /\ prompt.summary.present =>
         (Truthy(resolved_ticker) /\ prompt.summary.body.kind = "summary")
    /\ prompt.news.present =>
         (Truthy(resolved_ticker) /\ prompt.news.body.kind = "list")

\* the provider calls that fetch market data for a symbol
DataLookups == {i \in CallIndices : calls[i].op \in {"info", "history", "news"}}

\* C10 as stated: everything fetched, used or shown in a turn is for the
\* resolved symbol; the profile fetch's fallback search never makes the
\* summary describe another symbol than the one of the headings.
C10_AsStated ==
  (PastFetch /\ Truthy(resolved_ticker)) =>
    /\ \A i \in DataLookups : calls[i].arg = Upper(resolved_ticker)
    /\ stock_data.kind = "summary" => stock_data.symbol = Upper(resolved_ticker)

\* the profile fetch's fallback: the first lookup lacked a display name and the
\* search ranked symbol sy first
FellBackTo(sy) ==
  /\ sy /= None
  /\ \E i \in CallIndices :
       /\ calls[i] = Call("info", "get_stock_info", Upper(resolved_ticker), <<"noName">>)
       /\ i + 1 \in CallIndices
       /\ calls[i + 1] = Call("search", "get_stock_info", resolved_ticker, sy)

\* C10, amended: the history, the news and the key metrics are fetched for the
\* turn's resolved symbol, the headings name it, and the profile fetch is
\* asked for it; the profile summary describes the resolved symbol unless the
\* provider's record for it lacks a display name and the fallback search ranks
\* a candidate first: the summary then describes that candidate, which may be
\* a different symbol.
C10_SameSymbolButFallback ==
  (PastFetch /\ Truthy(resolved_ticker)) =>
    /\ \A i \in CallIndices :
         calls[i].by \in {"get_stock_history", "get_latest_news", "metrics"} =>
           calls[i].arg = resolved_ticker
    /\ \A i \in Entered("get_stock_info") :
         /\ calls[i].arg = resolved_ticker
         /\ calls[i + 1].op = "info" /\ calls[i + 1].arg = Upper(resolved_ticker)
    /\ \A i \in DataLookups :
         calls[i].arg = Upper(resolved_ticker) \/ FellBackTo(calls[i].arg)
    /\ prompt.summary.present => prompt.summary.for = resolved_ticker
    /\ prompt.news.present => prompt.news.for = resolved_ticker
    /\ sentiment_prompt.built => sentiment_prompt.for = resolved_ticker
    /\ stock_data.kind = "summary" =>
         (stock_data.symbol = Upper(resolved_ticker) \/ FellBackTo(stock_data.symbol))
    /\ prompt.summary.present => prompt.summary.body = stock_data

\* the summary shown under the resolved symbol's heading describes another one
C10_Witness ==
  /\ TurnDone
  /\ Truthy(resolved_ticker)
  /\ stock_data.kind = "summary"
  /\ stock_data.symbol /= Upper(resolved_ticker)
  /\ prompt.summary.present /\ prompt.summary.for = resolved_ticker
  /\ history_df = Frame(resolved_ticker)
  /\ "summary" \in shown

====
